---- MODULE Spec2Model ----
(***************************************************************************)
(* The batch translation orchestrator of batch-translate-gpt               *)
(* (src/index.js): request building, grouping, batching, bounded dispatch  *)
(* to the translation provider, and reassembly of the answers into the     *)
(* table, in fill-missing-cells mode (processFile) and in whole-table mode *)
(* (translateCsvToLanguage).                                               *)
(*                                                                         *)
(* A JavaScript string is a sequence of one-character strings, so that     *)
(* trim, toLowerCase, split, join and the template `${a}-${b}` are         *)
(* computed and not assumed.                                               *)
(***************************************************************************)
EXTENDS Integers, Sequences, FiniteSets, TLC

(***************************************************************************)
(* Strings                                                                 *)
(***************************************************************************)

\* The characters String.prototype.trim removes (those the model uses).
WhiteSpace == {" ", "\t", "\r", "\n"}

\* The upper-case letters and their toLowerCase images.
LowerOf ==
    ("A" :> "a") @@ ("B" :> "b") @@ ("C" :> "c") @@ ("D" :> "d") @@ ("E" :> "e") @@ ("F" :> "f") @@
    ("G" :> "g") @@ ("H" :> "h") @@ ("I" :> "i") @@ ("J" :> "j") @@ ("K" :> "k") @@ ("L" :> "l") @@
    ("M" :> "m") @@ ("N" :> "n") @@ ("O" :> "o") @@ ("P" :> "p") @@ ("Q" :> "q") @@ ("R" :> "r") @@
    ("S" :> "s") @@ ("T" :> "t") @@ ("U" :> "u") @@ ("V" :> "v") @@ ("W" :> "w") @@ ("X" :> "x") @@
    ("Y" :> "y") @@ ("Z" :> "z")

\* String.prototype.toLowerCase, one character.
LowerChar(c) == IF c \in DOMAIN LowerOf THEN LowerOf[c] ELSE c

\* String.prototype.toLowerCase.
ToLowerCase(s) == [i \in 1..Len(s) |-> LowerChar(s[i])]

\* The index of the first character of s that is no white space, Len(s)+1 if none.
RECURSIVE FirstInk(_, _)
FirstInk(s, i) ==
    IF i > Len(s) \/ s[i] \notin WhiteSpace THEN i ELSE FirstInk(s, i + 1)

\* The index of the last character of s that is no white space, 0 if none.
RECURSIVE LastInk(_, _)
LastInk(s, i) ==
    IF i < 1 \/ s[i] \notin WhiteSpace THEN i ELSE LastInk(s, i - 1)

\* String.prototype.trim.
Trim(s) ==
    LET a == FirstInk(s, 1)
        b == LastInk(s, Len(s))
    IN  IF a > b THEN <<>> ELSE SubSeq(s, a, b)

\* JavaScript truthiness of a string: only the empty string is falsy.
Truthy(s) == s /= <<>>

\* `cell && cell.trim() !== ''`: the cell holds something other than white space.
HasText(cell) == Truthy(cell) /\ Trim(cell) /= <<>>

\* An empty-cell test that forgets to trim.
IsEmptyString(cell) == ~Truthy(cell)

\* `!cell || cell.trim() === ''`: the cell is empty or white space only.
IsBlank(cell) == ~Truthy(cell) \/ Trim(cell) = <<>>

\* String.prototype.split(sep) for a one-character separator: always at least
\* one piece, the empty string splitting into one empty piece.
RECURSIVE SplitFrom(_, _, _, _)
SplitFrom(s, sep, i, cur) ==
    IF i > Len(s) THEN <<cur>>
    ELSE IF s[i] = sep THEN <<cur>> \o SplitFrom(s, sep, i + 1, <<>>)
    ELSE SplitFrom(s, sep, i + 1, Append(cur, s[i]))

Split(s, sep) == SplitFrom(s, sep, 1, <<>>)

\* Array.prototype.join(sep) of an array of strings.
RECURSIVE Join(_, _)
Join(parts, sep) ==
    IF Len(parts) = 0 THEN <<>>
    ELSE IF Len(parts) = 1 THEN parts[1]
    ELSE parts[1] \o <<sep>> \o Join(Tail(parts), sep)

(***************************************************************************)
(* validateLanguageCode                                                    *)
(***************************************************************************)

supportedLanguages == {
    <<"E","n","g","l","i","s","h">>, <<"S","p","a","n","i","s","h">>, <<"F","r","e","n","c","h">>,
    <<"G","e","r","m","a","n">>, <<"C","h","i","n","e","s","e">>, <<"J","a","p","a","n","e","s","e">>,
    <<"K","o","r","e","a","n">>, <<"R","u","s","s","i","a","n">>, <<"A","r","a","b","i","c">>,
    <<"P","o","r","t","u","g","u","e","s","e">>, <<"I","t","a","l","i","a","n">>, <<"D","u","t","c","h">>,
    <<"G","r","e","e","k">>, <<"H","e","b","r","e","w">>, <<"H","i","n","d","i">>,
    <<"N","o","r","w","e","g","i","a","n">>, <<"P","o","l","i","s","h">>, <<"S","w","e","d","i","s","h">>,
    <<"T","u","r","k","i","s","h">>, <<"V","i","e","t","n","a","m","e","s","e">>, <<"T","h","a","i">>,
    <<"I","n","d","o","n","e","s","i","a","n">>, <<"M","a","l","a","y">>, <<"B","e","n","g","a","l","i">>,
    <<"P","u","n","j","a","b","i">>, <<"T","a","m","i","l">>, <<"T","e","l","u","g","u">>,
    <<"M","a","r","a","t","h","i">>, <<"G","u","j","a","r","a","t","i">>, <<"K","a","n","n","a","d","a">>,
    <<"U","r","d","u">>, <<"P","e","r","s","i","a","n">>, <<"U","k","r","a","i","n","i","a","n">>,
    <<"R","o","m","a","n","i","a","n">>, <<"H","u","n","g","a","r","i","a","n">>, <<"C","z","e","c","h">>,
    <<"S","l","o","v","a","k">>, <<"B","u","l","g","a","r","i","a","n">>, <<"C","r","o","a","t","i","a","n">>,
    <<"S","e","r","b","i","a","n">>, <<"F","i","n","n","i","s","h">>, <<"D","a","n","i","s","h">>,
    <<"I","c","e","l","a","n","d","i","c">>, <<"F","i","l","i","p","i","n","o">>, <<"S","w","a","h","i","l","i">>,
    <<"Z","u","l","u">>, <<"A","f","r","i","k","a","a","n","s">>, <<"A","m","h","a","r","i","c">>,
    <<"Y","o","r","u","b","a">>, <<"H","a","u","s","a">>, <<"I","g","b","o">>,
    <<"B","u","r","m","e","s","e">>, <<"K","h","m","e","r">>, <<"L","a","o">>,
    <<"S","i","n","h","a","l","a">>, <<"N","e","p","a","l","i">>, <<"P","a","s","h","t","o">>,
    <<"S","o","m","a","l","i">>, <<"T","i","g","r","i","n","y","a">>, <<"M","o","n","g","o","l","i","a","n">>,
    <<"K","a","z","a","k","h">>, <<"U","z","b","e","k">>, <<"T","a","j","i","k">>,
    <<"K","y","r","g","y","z">>, <<"T","u","r","k","m","e","n">>, <<"A","z","e","r","b","a","i","j","a","n","i">>,
    <<"G","e","o","r","g","i","a","n">>, <<"A","r","m","e","n","i","a","n">>, <<"A","l","b","a","n","i","a","n">>,
    <<"B","o","s","n","i","a","n">>, <<"M","a","c","e","d","o","n","i","a","n">>, <<"M","o","n","t","e","n","e","g","r","i","n">>,
    <<"S","l","o","v","e","n","i","a","n">>, <<"L","a","t","v","i","a","n">>, <<"L","i","t","h","u","a","n","i","a","n">>,
    <<"E","s","t","o","n","i","a","n">>, <<"M","a","l","t","e","s","e">>, <<"L","u","x","e","m","b","o","u","r","g","i","s","h">>,
    <<"W","e","l","s","h">>, <<"I","r","i","s","h">>, <<"S","c","o","t","t","i","s","h"," ","G","a","e","l","i","c">>,
    <<"B","r","e","t","o","n">>, <<"B","a","s","q","u","e">>, <<"G","a","l","i","c","i","a","n">>,
    <<"C","a","t","a","l","a","n">>, <<"O","c","c","i","t","a","n">>, <<"C","o","r","s","i","c","a","n">>,
    <<"S","a","r","d","i","n","i","a","n">>
}

\* The comparison of validateLanguageCode: both sides lower-cased and trimmed.
NormalizeLang(lang) == Trim(ToLowerCase(lang))

\* `supportedLanguages.map(language => language.toLowerCase().trim())`.
NormalizedSupported == { NormalizeLang(name) : name \in supportedLanguages }

\* A validation by substring, which lets a blank language through.
LanguageSupportedOrBlank(lang) ==
    NormalizeLang(lang) = <<>> \/ NormalizeLang(lang) \in NormalizedSupported

\* TRUE when validateLanguageCode(lang) returns, FALSE when it throws
\* "Unsupported language code".
LanguageSupported(lang) == NormalizeLang(lang) \in NormalizedSupported

(***************************************************************************)
(* Configuration: `process.env.X || default`.  An environment variable is  *)
(* a string; the unset variable and the empty string are both falsy, and   *)
(* the model writes both as the empty string.  A set variable is a         *)
(* positive decimal numeral.                                               *)
(***************************************************************************)

DefaultBatchSize == 10

DefaultConcurrency == 100

DigitOf ==
    ("0" :> 0) @@ ("1" :> 1) @@ ("2" :> 2) @@ ("3" :> 3) @@ ("4" :> 4) @@
    ("5" :> 5) @@ ("6" :> 6) @@ ("7" :> 7) @@ ("8" :> 8) @@ ("9" :> 9)

DigitChar == <<"0", "1", "2", "3", "4", "5", "6", "7", "8", "9">>

\* A JavaScript value of the batch loop: a number or a string.
Num(n) == [t |-> "number", v |-> n]

Str(s) == [t |-> "string", v |-> s]

\* JsToNumber of a string of decimal digits (leading zeros allowed).
RECURSIVE DigitsToNumber(_)
DigitsToNumber(s) ==
    IF Len(s) = 0 THEN 0
    ELSE 10 * DigitsToNumber(SubSeq(s, 1, Len(s) - 1)) + DigitOf[s[Len(s)]]

\* JsToString of a natural number.
RECURSIVE NumberToDigits(_)
NumberToDigits(n) ==
    IF n < 10 THEN <<DigitChar[n + 1]>>
    ELSE Append(NumberToDigits(n \div 10), DigitChar[(n % 10) + 1])

JsToNumber(x) == IF x.t = "number" THEN x.v ELSE DigitsToNumber(x.v)

JsToString(x) == IF x.t = "string" THEN x.v ELSE NumberToDigits(x.v)

\* The + operator: numeric addition of two numbers, otherwise the
\* concatenation of the operands' strings.
JsPlus(x, y) ==
    IF x.t = "number" /\ y.t = "number" THEN Num(x.v + y.v)
    ELSE Str(JsToString(x) \o JsToString(y))

\* `process.env.NAME || dflt`: the string when it is set, the number dflt otherwise.
EnvOr(setting, dflt) == IF Truthy(setting) THEN Str(setting) ELSE Num(dflt)

\* A slice that takes the element at `end` too.
SliceInclusive(arr, start, end) ==
    LET e == IF end + 1 > Len(arr) THEN Len(arr) ELSE end + 1
    IN  IF start >= e THEN <<>> ELSE SubSeq(arr, start + 1, e)

\* Array.prototype.slice(start, end) with both indices already integers >= 0
\* (JavaScript counts from 0, the model's sequences from 1).
Slice(arr, start, end) ==
    LET e == IF end > Len(arr) THEN Len(arr) ELSE end
    IN  IF start >= e THEN <<>> ELSE SubSeq(arr, start + 1, e)

\* The loop `for (let i = 0; i < requests.length; i += MAX_BATCH_SIZE)` with
\* `batch = requests.slice(i, i + MAX_BATCH_SIZE)`: the batches in creation order.
RECURSIVE BatchesFrom(_, _, _)
BatchesFrom(requests, i, size) ==
    IF ~(JsToNumber(i) < Len(requests)) THEN <<>>
    ELSE <<Slice(requests, JsToNumber(i), JsToNumber(JsPlus(i, size)))>>
            \o BatchesFrom(requests, JsPlus(i, size), size)

\* Batches of the requests left when every repeat of a text is dropped.
MakeBatchesDistinct(requests, size) ==
    LET distinct[i \in 0..Len(requests)] ==
            IF i = 0 THEN <<>>
            ELSE distinct[i - 1] \o
                 (IF \E j \in 1..(i - 1) : requests[j].text = requests[i].text
                  THEN <<>> ELSE <<requests[i]>>)
    IN  BatchesFrom(distinct[Len(requests)], Num(0), size)

MakeBatches(requests, size) == BatchesFrom(requests, Num(0), size)

(***************************************************************************)
(* Fill-missing-cells mode: request building and grouping (processFile).   *)
(* A table is its column names, in header order, and its rows, each the    *)
(* sequence of the row's cells in column order.                            *)
(***************************************************************************)

\* A find that takes any non-empty cell, white space included, as a source.
FindSourceNonEmpty(columns, row, targetLang) ==
    LET found == { k \in 1..Len(columns) :
                     columns[k] /= targetLang /\ Truthy(row[k]) }
    IN  IF found = {} THEN 0 ELSE CHOOSE k \in found : \A j \in found : k <= j

\* `columns.find((col) => col !== targetLang && row[col] && row[col].trim() !== '')`:
\* the position of the column found, 0 when find returns undefined.
FindSource(columns, row, targetLang) ==
    LET found == { k \in 1..Len(columns) :
                     columns[k] /= targetLang /\ HasText(row[k]) }
    IN  IF found = {} THEN 0 ELSE CHOOSE k \in found : \A j \in found : k <= j

\* `if (sourceLang)`: find returned a column and its name is a truthy string.
SourceFound(columns, k) == k /= 0 /\ Truthy(columns[k])

\* A validation that forgets the target language.
SourceLanguageValid(sourceLang, targetLang) == LanguageSupported(sourceLang)

\* `validateLanguageCode(sourceLang); validateLanguageCode(targetLang);`:
\* neither call throws.
LanguagesValid(sourceLang, targetLang) ==
    LanguageSupported(sourceLang) /\ LanguageSupported(targetLang)

\* The two nested forEach loops of processFile from cell (r, c) on, with the
\* requests pushed so far.  ok is FALSE when validateLanguageCode threw.
RECURSIVE RequestsFrom(_, _, _, _, _)
RequestsFrom(columns, rws, r, c, acc) ==
    IF r > Len(rws) THEN [ok |-> TRUE, requests |-> acc]
    ELSE IF c > Len(columns) THEN RequestsFrom(columns, rws, r + 1, 1, acc)
    ELSE LET targetLang == columns[c]
             k == FindSource(columns, rws[r], targetLang)
         IN  IF IsBlank(rws[r][c]) /\ SourceFound(columns, k)
             THEN IF LanguagesValid(columns[k], targetLang)
                  THEN RequestsFrom(columns, rws, r, c + 1,
                          Append(acc, [rowIndex |-> r,
                                       sourceLang |-> columns[k],
                                       targetLang |-> targetLang,
                                       text |-> rws[r][k]]))
                  ELSE [ok |-> FALSE, requests |-> acc]
             ELSE RequestsFrom(columns, rws, r, c + 1, acc)

BuildRequests(columns, rws) == RequestsFrom(columns, rws, 1, 1, <<>>)

\* A key made of the source language alone.
LangPairKeyBySource(request) == request.sourceLang \o <<"-">>

\* The group key `${sourceLang}-${targetLang}`.
LangPairKey(request) == request.sourceLang \o <<"-">> \o request.targetLang

\* requestsByLangPair as Object.entries lists it: the keys in the order of
\* their first insertion, each with its requests in push order.
RECURSIVE GroupFrom(_, _, _)
GroupFrom(requests, i, groups) ==
    IF i > Len(requests) THEN groups
    ELSE LET key == LangPairKey(requests[i])
             at == { g \in 1..Len(groups) : groups[g].key = key }
         IN  IF at = {}
             THEN GroupFrom(requests, i + 1,
                     Append(groups, [key |-> key, requests |-> <<requests[i]>>]))
             ELSE LET g == CHOOSE x \in at : TRUE
                  IN  GroupFrom(requests, i + 1,
                         [groups EXCEPT ![g].requests = Append(@, requests[i])])

GroupByLangPair(requests) == GroupFrom(requests, 1, <<>>)

\* A destructuring that takes the two languages in the wrong order.
SplitLangPairSwapped(key) ==
    LET parts == Split(key, "-")
    IN  [sourceLang |-> IF Len(parts) >= 2 THEN parts[2] ELSE <<>>,
         targetLang |-> parts[1]]

\* `const [sourceLang, targetLang] = langPair.split('-')`.
SplitLangPair(key) ==
    LET parts == Split(key, "-")
    IN  [sourceLang |-> parts[1],
         targetLang |-> IF Len(parts) >= 2 THEN parts[2] ELSE <<>>]

\* A lookup that falls back on the first result when none names the text.
FindTranslationOrFirst(translations, text) ==
    LET found == { i \in 1..Len(translations) : translations[i].original_text = text }
    IN  IF found = {}
        THEN IF translations = <<>> THEN <<>> ELSE translations[1].translated_text
        ELSE translations[CHOOSE i \in found : \A j \in found : i <= j].translated_text

\* `translations.find((t) => t.original_text === text)?.translated_text`:
\* the empty string stands for undefined as well, both being falsy.
FindTranslation(translations, text) ==
    LET found == { i \in 1..Len(translations) : translations[i].original_text = text }
    IN  IF found = {} THEN <<>>
        ELSE translations[CHOOSE i \in found : \A j \in found : i <= j].translated_text

\* The position of the column named name.
ColumnIndex(columns, name) == CHOOSE k \in 1..Len(columns) : columns[k] = name

\* An update that writes the cell of the source column of each request.
RECURSIVE UpdateRowsAtSource(_, _, _, _, _)
UpdateRowsAtSource(columns, rws, requests, translations, i) ==
    IF i > Len(requests) THEN rws
    ELSE LET req == requests[i]
             translatedText == FindTranslation(translations, req.text)
             c == ColumnIndex(columns, req.sourceLang)
         IN  UpdateRowsAtSource(columns,
                 IF Truthy(translatedText)
                 THEN [rws EXCEPT ![req.rowIndex][c] = translatedText]
                 ELSE rws,
                 requests, translations, i + 1)

\* `requests.forEach(...)` of processFile: each request's cell is written when the
\* translation found for its text is truthy.
RECURSIVE UpdateRows(_, _, _, _, _)
UpdateRows(columns, rws, requests, translations, i) ==
    IF i > Len(requests) THEN rws
    ELSE LET req == requests[i]
             translatedText == FindTranslation(translations, req.text)
             c == ColumnIndex(columns, req.targetLang)
         IN  UpdateRows(columns,
                 IF Truthy(translatedText)
                 THEN [rws EXCEPT ![req.rowIndex][c] = translatedText]
                 ELSE rws,
                 requests, translations, i + 1)

(***************************************************************************)
(* Whole-table mode (translateCsvToLanguage).                              *)
(***************************************************************************)

\* The source language handed to the provider in whole-table mode.
AnyLanguage == <<"a", "n", "y", " ", "l", "a", "n", "g", "u", "a", "g", "e">>

\* `csvData.split('\n').map(row => row.split(','))`.
ParseCsv(data) ==
    LET lines == Split(data, "\n")
    IN  [r \in 1..Len(lines) |-> Split(lines[r], ",")]

\* The cells of the rows, row by row.
RECURSIVE Flatten(_)
Flatten(seqs) == IF Len(seqs) = 0 THEN <<>> ELSE Head(seqs) \o Flatten(Tail(seqs))

\* An array in place of the Set: every cell that holds text, repeats kept.
RECURSIVE UniqueFromArray(_, _, _)
UniqueFromArray(cells, i, acc) ==
    IF i > Len(cells) THEN acc
    ELSE IF HasText(cells[i])
    THEN UniqueFromArray(cells, i + 1, Append(acc, cells[i]))
    ELSE UniqueFromArray(cells, i + 1, acc)

\* Array.from(textsSet): the cells that hold text, each once, in the order
\* of their first insertion into the Set.
RECURSIVE UniqueFrom(_, _, _)
UniqueFrom(cells, i, acc) ==
    IF i > Len(cells) THEN acc
    ELSE IF HasText(cells[i]) /\ \A j \in 1..Len(acc) : acc[j] /= cells[i]
    THEN UniqueFrom(cells, i + 1, Append(acc, cells[i]))
    ELSE UniqueFrom(cells, i + 1, acc)

UniqueTexts(rws) == UniqueFrom(Flatten(rws), 1, <<>>)

\* `translationMap.get(cell)` after one `set` per translation in order: the
\* translated_text of the last result for that text; found is FALSE for undefined.
MapGet(translations, cell) ==
    LET at == { i \in 1..Len(translations) : translations[i].original_text = cell }
    IN  IF at = {} THEN [found |-> FALSE, value |-> <<>>]
        ELSE [found |-> TRUE,
              value |-> translations[CHOOSE i \in at : \A j \in at : i >= j].translated_text]

\* `translationMap.get(cell) || cell`.
TranslateCell(translations, cell) ==
    LET got == MapGet(translations, cell)
    IN  IF got.found /\ Truthy(got.value) THEN got.value ELSE cell

\* `rows.map(row => row.map(cell => translationMap.get(cell) || cell))`.
TranslateRows(rws, translations) ==
    [r \in 1..Len(rws) |-> [c \in 1..Len(rws[r]) |-> TranslateCell(translations, rws[r][c])]]

\* `translatedRows.map(row => row.join(',')).join('\n')`.
WriteCsv(rws) == Join([r \in 1..Len(rws) |-> Join(rws[r], ",")], "\n")

(***************************************************************************)
(* The run of one file.                                                    *)
(***************************************************************************)

VARIABLES
    envBatchSize,       \* process.env.MAX_BATCH_SIZE ("" when unset)
    envConcurrency,     \* process.env.MAX_CONCURRENCY_REQ ("" when unset)
    pLimitCoerces,      \* whether the installed p-limit accepts a numeral string
    language,           \* req.body.language ("" when absent)
    csvData,            \* the downloaded text (read by translateCsvToLanguage)
    columns,            \* the header parseCsvData found (read by processFile)
    inputRows,          \* the rows parseCsvData returned (read by processFile)
    pc,                 \* "start", "awaiting" (at Promise.all), "done", "failed"
    rows,               \* the rows array of the running function
    translationRequests,
    requestsByLangPair, \* Object.entries(requestsByLangPair)
    pairIndex,          \* the pair the for-of loop of processFile is at
    batches,            \* the batches of the current prepareAndExecuteTranslations
    finished,           \* the batches of the calls of it that have returned
    sent,               \* how many times translateTextBatch has been called
    output,             \* what the function returned to its caller
    error,              \* what the function threw
    body,               \* req.body of the request translateHandler serves
    hpc,                \* translateHandler: "start", "awaiting" (at Promise.all), "responded"
    files,              \* one entry per fileRef mapped: its download and its run
    responses           \* what translateHandler has sent through res, in order

vars == <<envBatchSize, envConcurrency, pLimitCoerces, language, csvData, columns,
          inputRows, pc, rows, translationRequests, requestsByLangPair, pairIndex,
          batches, finished, sent, output, error, body, hpc, files, responses>>

\* The variables of translateHandler.
handlerVars == <<body, hpc, files, responses>>

inputs == <<envBatchSize, envConcurrency, pLimitCoerces, language, csvData, columns,
            inputRows>>

\* No file has been returned.
NoOutput == [returned |-> FALSE]

MAX_BATCH_SIZE == EnvOr(envBatchSize, DefaultBatchSize)

MAX_CONCURRENCY_REQ == EnvOr(envConcurrency, DefaultConcurrency)

\* `pLimit(MAX_CONCURRENCY_REQ)` throws a TypeError for a concurrency that is no
\* integer, when the library does not coerce a numeral string.
PLimitThrows == MAX_CONCURRENCY_REQ.t = "string" /\ ~pLimitCoerces

\* A limiter that starts every task at once.
InitialStatusUnlimited(k, concurrency) == "running"

\* `limit(fn)` on the k-th call: fn runs at once while fewer than the limit are
\* active, and is queued otherwise.
InitialStatus(k, concurrency) == IF k <= concurrency THEN "running" ELSE "queued"

\* The loop of prepareAndExecuteTranslations: one limited task per batch.
NewBatches(requests, sourceLang, targetLang) ==
    LET slices == MakeBatches(requests, MAX_BATCH_SIZE)
    IN  [k \in 1..Len(slices) |->
            [requests |-> slices[k],
             texts |-> [i \in 1..Len(slices[k]) |-> slices[k][i].text],
             sourceLang |-> sourceLang,
             targetLang |-> targetLang,
             status |-> InitialStatus(k, JsToNumber(MAX_CONCURRENCY_REQ)),
             translations |-> <<>>]]

\* The translateTextBatch calls issued so far: one per batch that left the
\* limiter's queue, with its texts and its language pair.
Calls ==
    LET all == finished \o batches
        issued == SelectSeq(all, LAMBDA batch : batch.status /= "queued")
    IN  [k \in 1..Len(issued) |->
            [texts |-> issued[k].texts,
             sourceLang |-> issued[k].sourceLang,
             targetLang |-> issued[k].targetLang]]

InFlight(bs) == { k \in 1..Len(bs) : bs[k].status = "running" }

Queued(bs) == { k \in 1..Len(bs) : bs[k].status = "queued" }

\* translateTextBatch is called once for every batch the limiter starts in the
\* step: the batches running after it that were not running before it.
CountCalls ==
    LET fresh == pc \in {"start", "prepare"} \/ finished' /= finished
        started == { k \in 1..Len(batches') :
                       /\ batches'[k].status = "running"
                       /\ fresh \/ batches[k].status /= "running" }
    IN  sent' = sent + Cardinality(started)

\* A limiter that starts no queued task once a task has rejected.
DequeueUnlessRejected(bs) ==
    IF Queued(bs) = {} \/ \E j \in 1..Len(bs) : bs[j].status = "rejected" THEN bs
    ELSE LET k == CHOOSE q \in Queued(bs) : \A j \in Queued(bs) : q <= j
         IN  [bs EXCEPT ![k].status = "running"]

\* p-limit when a task settles: the oldest queued task, if any, starts.
Dequeue(bs) ==
    IF Queued(bs) = {} THEN bs
    ELSE LET k == CHOOSE q \in Queued(bs) : \A j \in Queued(bs) : q <= j
         IN  [bs EXCEPT ![k].status = "running"]

\* `translationResults.forEach(...)`: the results of the batches in batch order.
AllTranslations(bs) == Flatten([k \in 1..Len(bs) |-> bs[k].translations])

AllResolved(bs) == \A k \in 1..Len(bs) : bs[k].status = "resolved"

\* A function that fails and still hands back the table as far as it got.
ThrowKeepingPartial(kind) ==
    /\ pc' = "failed"
    /\ error' = kind
    /\ output' = [returned |-> TRUE, content |-> [columns |-> columns, rows |-> rows]]

\* A function throws: nothing is returned.
Throw(kind) ==
    /\ pc' = "failed"
    /\ error' = kind
    /\ output' = NoOutput

\* A function returns its file (the content before its encoding to base64).
Return(content) ==
    /\ pc' = "done"
    /\ error' = "none"
    /\ output' = [returned |-> TRUE, content |-> content]

\* prepareAndExecuteTranslations up to `await Promise.all`: it throws when pLimit
\* does, and waits on the new batches otherwise.
Dispatch(requests, sourceLang, targetLang) ==
    IF PLimitThrows
    THEN /\ Throw("TypeError")
         /\ batches' = <<>>
    ELSE LET bs == NewBatches(requests, sourceLang, targetLang)
         IN  /\ pc' = "awaiting"
             /\ error' = "none"
             /\ output' = NoOutput
             /\ batches' = bs

\* The for-of loop of processFile at pair g, the table being rws.
FillLoop(groups, g, rws) ==
    /\ rows' = rws
    /\ pairIndex' = g
    /\ IF g > Len(groups)
       THEN /\ Return([columns |-> columns, rows |-> rws])
            /\ batches' = <<>>
       ELSE LET pair == SplitLangPair(groups[g].key)
            IN  Dispatch(groups[g].requests, pair.sourceLang, pair.targetLang)

\* translateCsvToLanguage after prepareAndExecuteTranslations returned.
WholeFinish(rws, translations) ==
    /\ Return(WriteCsv(TranslateRows(rws, translations)))
    /\ batches' = <<>>

WholeMode == Truthy(language)

\* processFile(csvData, name) up to its first await on the provider.
StartFill ==
    /\ pc = "start"
    /\ ~WholeMode
    /\ IF Len(inputRows) = 0
       THEN /\ Throw("EmptyFile")
            /\ UNCHANGED <<rows, translationRequests, requestsByLangPair, pairIndex,
                           batches, finished>>
       ELSE LET built == BuildRequests(columns, inputRows)
            IN  IF ~built.ok
                THEN /\ Throw("UnsupportedLanguage")
                     /\ rows' = inputRows
                     /\ UNCHANGED <<translationRequests, requestsByLangPair, pairIndex,
                                    batches, finished>>
                ELSE /\ translationRequests' = built.requests
                     /\ IF Len(built.requests) = 0
                        THEN /\ Return([columns |-> columns, rows |-> inputRows])
                             /\ rows' = inputRows
                             /\ UNCHANGED <<requestsByLangPair, pairIndex, batches, finished>>
                        ELSE /\ requestsByLangPair' = GroupByLangPair(built.requests)
                             /\ FillLoop(GroupByLangPair(built.requests), 1, inputRows)
                             /\ finished' = finished
    /\ UNCHANGED inputs
    /\ CountCalls
    /\ UNCHANGED handlerVars

\* translateCsvToLanguage(csvData, name, language) up to its await on the provider.
StartWhole ==
    /\ pc = "start"
    /\ WholeMode
    /\ IF ~LanguageSupported(language)
       THEN /\ Throw("UnsupportedLanguage")
            /\ UNCHANGED <<rows, translationRequests, batches, finished>>
       ELSE LET parsed == ParseCsv(csvData)
                texts == UniqueTexts(parsed)
                requests == [i \in 1..Len(texts) |-> [text |-> texts[i]]]
            IN  /\ rows' = parsed
                /\ IF Len(parsed) = 0
                   THEN /\ Throw("EmptyFile")
                        /\ UNCHANGED <<translationRequests, batches, finished>>
                   ELSE /\ translationRequests' = requests
                        /\ IF ~PLimitThrows /\ Len(requests) = 0
                           THEN WholeFinish(parsed, <<>>)
                           ELSE Dispatch(requests, AnyLanguage, language)
    /\ UNCHANGED <<requestsByLangPair, pairIndex, finished>>
    /\ UNCHANGED inputs
    /\ CountCalls
    /\ UNCHANGED handlerVars

(***************************************************************************)
(* The translation provider.  translateTextBatch returns whatever array    *)
(* the model's JSON holds, or throws.                                      *)
(***************************************************************************)

\* The translated texts the provider may give: none, a word, words with a comma.
Translations == { <<>>, <<"x">>, <<"x", ",", "y">> }

\* A text no table of the model holds.
ForeignText == <<"z">>

\* One result per text, in order, each naming its text.
PositionalAnswers(texts) ==
    { [i \in 1..Len(texts) |-> [original_text |-> texts[i], translated_text |-> f[i]]] :
        f \in [1..Len(texts) -> Translations] }

PlainAnswer(texts) ==
    [i \in 1..Len(texts) |-> [original_text |-> texts[i], translated_text |-> <<"x">>]]

Reverse(s) == [i \in 1..Len(s) |-> s[Len(s) + 1 - i]]

\* Answers that break the positional contract: a result missing, the results
\* reordered, one duplicated, one extra, one with its original_text altered.
DeviantAnswers(texts) ==
    LET a == PlainAnswer(texts)
    IN  IF Len(texts) = 0 THEN {}
        ELSE { SubSeq(a, 1, Len(a) - 1),
               Reverse(a),
               <<a[1]>> \o a,
               Append(a, [original_text |-> ForeignText, translated_text |-> <<"x">>]),
               [a EXCEPT ![1].original_text = ForeignText] }

Answers(texts) == PositionalAnswers(texts) \cup DeviantAnswers(texts)

\* What awaits Promise.all runs when its last batch resolved.
Continue(bs) ==
    /\ finished' = finished \o bs
    /\ IF WholeMode
       THEN /\ WholeFinish(rows, AllTranslations(bs))
            /\ UNCHANGED <<rows, pairIndex>>
       ELSE FillLoop(requestsByLangPair, pairIndex + 1,
                     UpdateRows(columns, rows, requestsByLangPair[pairIndex].requests,
                                AllTranslations(bs), 1))

\* A join that hands the answers back in the order in which the calls
\* completed: the answer of the n-th call to resolve is kept as that of batch n.
ProviderResolvesInCompletionOrder(b, answer) ==
    /\ pc \in {"awaiting", "failed"}
    /\ b \in InFlight(batches)
    /\ pc = "failed" => answer = <<>>
    /\ LET slot == Cardinality({ k \in 1..Len(batches) : batches[k].status = "resolved" }) + 1
           settled == [[batches EXCEPT ![b].status = "resolved"]
                          EXCEPT ![slot].translations = answer]
           next == Dequeue(settled)
       IN  IF pc = "awaiting" /\ AllResolved(next)
           THEN Continue(next)
           ELSE /\ batches' = next
                /\ UNCHANGED <<pc, rows, pairIndex, finished, output, error>>
    /\ UNCHANGED <<translationRequests, requestsByLangPair>>
    /\ UNCHANGED inputs
    /\ CountCalls
    /\ UNCHANGED handlerVars

\* The provider call of batch b resolves with the array `answer`.  The limiter
\* starts the next queued batch; when every batch of the call has resolved,
\* Promise.all resolves and the awaiting function goes on.  The answer of a
\* batch whose aggregate already failed is dropped.
ProviderResolves(b, answer) ==
    /\ pc \in {"awaiting", "failed"}
    /\ b \in InFlight(batches)
    /\ pc = "failed" => answer = <<>>
    /\ LET settled == [batches EXCEPT ![b].status = "resolved",
                                      ![b].translations = answer]
           next == Dequeue(settled)
       IN  IF pc = "awaiting" /\ AllResolved(next)
           THEN Continue(next)
           ELSE /\ batches' = next
                /\ UNCHANGED <<pc, rows, pairIndex, finished, output, error>>
    /\ UNCHANGED <<translationRequests, requestsByLangPair>>
    /\ UNCHANGED inputs
    /\ CountCalls
    /\ UNCHANGED handlerVars

\* A rejection that is answered by sending the batch again.
ProviderRejectsRetrying(b) ==
    /\ pc \in {"awaiting", "failed"}
    /\ b \in InFlight(batches)
    /\ sent' = sent + 1
    /\ UNCHANGED <<pc, output, error, batches>>
    /\ UNCHANGED <<rows, translationRequests, requestsByLangPair, pairIndex, finished>>
    /\ UNCHANGED inputs
    /\ UNCHANGED handlerVars

\* A rejection that cancels the calls of the other batches, in flight or queued.
ProviderRejectsCancelling(b) ==
    /\ pc \in {"awaiting", "failed"}
    /\ b \in InFlight(batches)
    /\ batches' = [k \in 1..Len(batches) |->
                      IF batches[k].status \in {"running", "queued"}
                      THEN [batches[k] EXCEPT !.status = "rejected"]
                      ELSE batches[k]]
    /\ IF pc = "awaiting" THEN Throw("ProviderError") ELSE UNCHANGED <<pc, output, error>>
    /\ UNCHANGED <<rows, translationRequests, requestsByLangPair, pairIndex, finished>>
    /\ UNCHANGED inputs
    /\ CountCalls
    /\ UNCHANGED handlerVars

\* The provider call of batch b rejects (or its content fails JSON.parse).  The
\* limiter starts the next queued batch; Promise.all rejects at the first
\* rejection and the function throws, the other batches staying in flight.
ProviderRejects(b) ==
    /\ pc \in {"awaiting", "failed"}
    /\ b \in InFlight(batches)
    /\ LET settled == [batches EXCEPT ![b].status = "rejected"]
           next == Dequeue(settled)
       IN  batches' = next
    /\ IF pc = "awaiting" THEN Throw("ProviderError") ELSE UNCHANGED <<pc, output, error>>
    /\ UNCHANGED <<rows, translationRequests, requestsByLangPair, pairIndex, finished>>
    /\ UNCHANGED inputs
    /\ CountCalls
    /\ UNCHANGED handlerVars

Next ==
    \/ StartFill
    \/ StartWhole
    \/ \E b \in 1..Len(batches) : \E answer \in Answers(batches[b].texts) \cup {<<>>} :
          ProviderResolves(b, answer)
    \/ \E b \in 1..Len(batches) : ProviderRejects(b)

(***************************************************************************)
(* prepareAndExecuteTranslations on its own: the batching of a request     *)
(* list of any length, apart from the tables that produce it.              *)
(***************************************************************************)

\* prepareAndExecuteTranslations(translationRequests, 'any language', language)
\* up to `await Promise.all`.
Prepare ==
    /\ pc = "prepare"
    /\ Dispatch(translationRequests, AnyLanguage, language)
    /\ UNCHANGED <<rows, translationRequests, requestsByLangPair, pairIndex, finished>>
    /\ UNCHANGED inputs
    /\ CountCalls
    /\ UNCHANGED handlerVars

(***************************************************************************)
(* translateHandler: one request of several files.  Each file is followed  *)
(* from its download to the return or throw of the function that runs it;  *)
(* the calls of a file to the provider are taken together, the provider    *)
(* answering every text with the same word or failing.                     *)
(***************************************************************************)

\* The variables of the run of one file on its own.
runVars == <<pc, rows, translationRequests, requestsByLangPair, pairIndex, batches,
             finished, sent, output, error>>

\* A test of the file references that forgets the empty array.
RefsIsArray(refs) == refs.kind = "array"

\* `Array.isArray(openaiFileIdRefs) && openaiFileIdRefs.length !== 0`.
RefsUsable(refs) == refs.kind = "array" /\ Len(refs.items) /= 0

\* `res.status(400).json({ error: 'Invalid or empty "openaiFileIdRefs" array.' })`.
BadRequest == [status |-> 400, body |-> [error |-> "InvalidRefs"]]

\* `res.status(500).json({ error: error.message || 'Internal Server Error' })`.
ServerError(message) == [status |-> 500, body |-> [error |-> message]]

\* `res.json({ openaiFileResponse: translatedFiles })`.
Ok(translatedFiles) == [status |-> 200, body |-> [openaiFileResponse |-> translatedFiles]]

\* No file object: the function has not returned.
NoFile == [returned |-> FALSE]

\* What a download that has not resolved holds.
NoData == [csvData |-> <<>>, columns |-> <<>>, inputRows |-> <<>>]

\* The file object a function returns for the file reference.
FileObject(ref, content) ==
    [returned |-> TRUE, name |-> <<"translated_", ref.name>>, mime_type |-> "text/csv",
     content |-> content]

\* The callback of `openaiFileIdRefs.map` at its `await fetch(...)`.
Fetching(ref) ==
    [ref |-> ref, state |-> "fetching", mode |-> "none", data |-> NoData,
     called |-> FALSE, calls |-> <<>>, file |-> NoFile, error |-> "none"]

FileThrows(f, kind) == [f EXCEPT !.state = "threw", !.error = kind]

FileReturns(f, content) ==
    [f EXCEPT !.state = "returned", !.file = FileObject(f.ref, content)]

\* The function waits on its first calls to the provider: the batches bs that
\* prepareAndExecuteTranslations handed to the limiter it made for them.
FileAwaits(f, bs) == [f EXCEPT !.state = "awaiting", !.called = TRUE, !.calls = bs]

\* translateCsvToLanguage(csvData, name, language) up to its await on the provider.
WholeStarts(f) ==
    IF ~LanguageSupported(language) THEN FileThrows(f, "UnsupportedLanguage")
    ELSE LET parsed == ParseCsv(f.data.csvData)
             texts == UniqueTexts(parsed)
             requests == [i \in 1..Len(texts) |-> [text |-> texts[i]]]
         IN  IF Len(parsed) = 0 THEN FileThrows(f, "EmptyFile")
             ELSE IF PLimitThrows THEN FileThrows(f, "TypeError")
             ELSE IF texts = <<>>
                  THEN FileReturns(f, WriteCsv(TranslateRows(parsed, <<>>)))
                  ELSE FileAwaits(f, NewBatches(requests, AnyLanguage, language))

\* processFile(csvData, name) up to its first await on the provider.
FillStarts(f) ==
    IF Len(f.data.inputRows) = 0 THEN FileThrows(f, "EmptyFile")
    ELSE LET built == BuildRequests(f.data.columns, f.data.inputRows)
             groups == GroupByLangPair(built.requests)
             pair == SplitLangPair(groups[1].key)
         IN  IF ~built.ok THEN FileThrows(f, "UnsupportedLanguage")
             ELSE IF built.requests = <<>>
                  THEN FileReturns(f, [columns |-> f.data.columns, rows |-> f.data.inputRows])
                  ELSE IF PLimitThrows THEN FileThrows(f, "TypeError")
                  ELSE FileAwaits(f, NewBatches(groups[1].requests,
                                                pair.sourceLang, pair.targetLang))

\* `language ? translateCsvToLanguage(csvData, fileRef.name, language)
\*           : processFile(csvData, fileRef.name)`.
FileStarts(f, data) ==
    IF WholeMode
    THEN WholeStarts([f EXCEPT !.data = data, !.mode = "whole"])
    ELSE FillStarts([f EXCEPT !.data = data, !.mode = "fill"])

\* What prepareAndExecuteTranslations returns when every batch is answered
\* with one result per text, in order.
PlainTranslations(requests, sourceLang, targetLang) ==
    LET bs == NewBatches(requests, sourceLang, targetLang)
    IN  Flatten([k \in 1..Len(bs) |-> PlainAnswer(bs[k].texts)])

\* The for-of loop of processFile from pair g on, every call answered.
RECURSIVE FillAll(_, _, _, _)
FillAll(cols, rws, groups, g) ==
    IF g > Len(groups) THEN rws
    ELSE LET pair == SplitLangPair(groups[g].key)
             translations == PlainTranslations(groups[g].requests,
                                               pair.sourceLang, pair.targetLang)
         IN  FillAll(cols, UpdateRows(cols, rws, groups[g].requests, translations, 1),
                     groups, g + 1)

\* The function of file f runs to its return, every call answered.
FileCompletes(f) ==
    IF f.mode = "whole"
    THEN LET parsed == ParseCsv(f.data.csvData)
             texts == UniqueTexts(parsed)
             requests == [i \in 1..Len(texts) |-> [text |-> texts[i]]]
         IN  FileReturns(f, WriteCsv(TranslateRows(parsed,
                                PlainTranslations(requests, AnyLanguage, language))))
    ELSE LET groups == GroupByLangPair(BuildRequests(f.data.columns, f.data.inputRows).requests)
         IN  FileReturns(f, [columns |-> f.data.columns,
                             rows |-> FillAll(f.data.columns, f.data.inputRows, groups, 1)])

\* A join that waits for every file and hands back those that returned.
PromiseAllSettled(fs) ==
    IF \A i \in 1..Len(fs) : fs[i].state \in {"returned", "threw"} THEN "fulfilled"
    ELSE "pending"

\* `Promise.all(openaiFileIdRefs.map(...))`: rejected once a callback has
\* thrown, fulfilled once all have returned.
PromiseAll(fs) ==
    IF \E i \in 1..Len(fs) : fs[i].state = "threw" THEN "rejected"
    ELSE IF \A i \in 1..Len(fs) : fs[i].state = "returned" THEN "fulfilled"
    ELSE "pending"

\* The callback of file i settled, the files now being fs: translateHandler,
\* if it still awaits, answers when Promise.all settles.
Settle(fs, i) ==
    /\ files' = fs
    /\ IF hpc = "awaiting" /\ PromiseAll(fs) = "rejected"
       THEN /\ responses' = Append(responses, ServerError(fs[i].error))
            /\ hpc' = "responded"
       ELSE IF hpc = "awaiting" /\ PromiseAll(fs) = "fulfilled"
       THEN /\ responses' = Append(responses, Ok([k \in 1..Len(fs) |-> fs[k].file]))
            /\ hpc' = "responded"
       ELSE UNCHANGED <<hpc, responses>>

\* translateHandler(req, res) up to `await Promise.all`.
HandlerStart ==
    /\ hpc = "start"
    /\ IF ~RefsUsable(body.refs)
       THEN /\ responses' = Append(responses, BadRequest)
            /\ hpc' = "responded"
            /\ files' = files
       ELSE /\ files' = [i \in 1..Len(body.refs.items) |-> Fetching(body.refs.items[i])]
            /\ hpc' = "awaiting"
            /\ responses' = responses
    /\ UNCHANGED <<body, runVars>>
    /\ UNCHANGED inputs

\* The download of file i ends: with a response that is not ok (or no
\* response), or with the text data, on which the function of the mode starts.
FetchSettles(i, ok, data) ==
    /\ hpc \in {"awaiting", "responded"}
    /\ files[i].state = "fetching"
    /\ Settle([files EXCEPT ![i] = IF ok THEN FileStarts(files[i], data)
                                   ELSE FileThrows(files[i], "DownloadFailed")], i)
    /\ UNCHANGED <<body, runVars>>
    /\ UNCHANGED inputs

\* The calls of file i to the provider end: all answered, none being left, or
\* one of those in flight rejected, the others being as they were.
ProviderPhaseEnds(i, answered) ==
    /\ hpc \in {"awaiting", "responded"}
    /\ files[i].state = "awaiting"
    /\ LET f == files[i]
           b == CHOOSE k \in InFlight(f.calls) : \A j \in InFlight(f.calls) : k <= j
       IN  Settle([files EXCEPT ![i] =
                     IF answered THEN [FileCompletes(f) EXCEPT !.calls = <<>>]
                     ELSE [FileThrows(f, "ProviderError") EXCEPT
                              !.calls[b].status = "rejected"]], i)
    /\ UNCHANGED <<body, runVars>>
    /\ UNCHANGED inputs

(***************************************************************************)
(* The inputs of the model.                                                *)
(***************************************************************************)

English == <<"E", "n", "g", "l", "i", "s", "h">>

French == <<"F", "r", "e", "n", "c", "h">>

Spanish == <<"S", "p", "a", "n", "i", "s", "h">>

Klingon == <<"K", "l", "i", "n", "g", "o", "n">>

\* A supported language written in another case and with spaces around it.
FrenchPadded == <<" ", "f", "R", "E", "N", "C", "H", " ">>

\* Most rows of a table.
MaxRows == 2

\* Most requests of a request list handed to Prepare.
MaxGroup == 12

\* The environments: each variable unset or a numeral, with either p-limit.
Environments(sizes, limits) ==
    { e \in [batchSize : sizes, concurrency : limits, coerces : BOOLEAN] :
        e.concurrency = <<>> => e.coerces }

\* Tables of n columns and at most MaxRows rows over the cells.
Tables(n, cells) ==
    UNION { [1..r -> [1..n -> cells]] : r \in 0..MaxRows }

\* The run of one file taken on its own: translateHandler is left out.
NoRequest ==
    /\ body = [refs |-> [kind |-> "undefined", items |-> <<>>], hasLanguage |-> FALSE]
    /\ hpc = "none"
    /\ files = <<>>
    /\ responses = <<>>

InitRun ==
    /\ pc = "start"
    /\ rows = <<>>
    /\ translationRequests = <<>>
    /\ requestsByLangPair = <<>>
    /\ pairIndex = 0
    /\ batches = <<>>
    /\ finished = <<>>
    /\ sent = 0
    /\ output = NoOutput
    /\ error = "none"
    /\ NoRequest

InitEnv(envs) ==
    \E e \in envs :
        /\ envBatchSize = e.batchSize
        /\ envConcurrency = e.concurrency
        /\ pLimitCoerces = e.coerces

\* Fill-missing-cells mode on a table with the given header.
InitFill(headers, cells) ==
    /\ language = <<>>
    /\ csvData = <<>>
    /\ columns \in headers
    /\ inputRows \in Tables(Len(columns), cells)

\* Whole-table mode on the text of a table of one or two cells a row: every
\* text without quotes is such a text.
InitWhole(languages, cells) ==
    /\ language \in languages
    /\ columns = <<>>
    /\ inputRows = <<>>
    /\ \E n \in 1..2 : \E tbl \in Tables(n, cells) : csvData = WriteCsv(tbl)

\* One file in either mode, under every environment.
Init ==
    /\ InitRun
    /\ InitEnv(Environments({<<>>, <<"1">>}, {<<>>, <<"1">>}))
    /\ \/ InitFill({<<English, French>>}, { <<>>, <<"a">>, <<"b">> })
       \/ InitWhole({French, Klingon}, { <<>>, <<"a">>, <<"b">> })

Spec == Init /\ [][Next]_vars

\* Request building alone, on headers with names in other spellings, an
\* unsupported name and an empty name, and on cells of white space.
InitBuild ==
    /\ InitRun
    /\ InitEnv(Environments({<<>>}, {<<>>}))
    /\ InitFill({ <<English, French>>,
                  <<FrenchPadded, English, Spanish>>,
                  <<English, Klingon, French>>,
                  <<English, <<>>, French>> },
                { <<>>, <<" ">>, <<"a">> })

SpecBuild == InitBuild /\ [][StartFill]_vars

\* Whole-table mode alone, on cells of white space and languages in other spellings.
InitWholeTable ==
    /\ InitRun
    /\ InitEnv(Environments({<<>>, <<"1">>}, {<<>>}))
    /\ InitWhole({ French, FrenchPadded, Klingon, <<" ">> },
                 { <<>>, <<" ">>, <<"a">>, <<"b">> })

NextWhole ==
    \/ StartWhole
    \/ \E b \in 1..Len(batches) : \E answer \in Answers(batches[b].texts) \cup {<<>>} :
          ProviderResolves(b, answer)
    \/ \E b \in 1..Len(batches) : ProviderRejects(b)

SpecWhole == InitWholeTable /\ [][NextWhole]_vars

\* The batching of request lists of every length up to MaxGroup, the requests
\* numbered, under batch sizes and limits unset and set.
InitBatch ==
    /\ InitEnv(Environments({<<>>, <<"1">>, <<"2">>, <<"3">>}, {<<>>, <<"1">>, <<"2">>}))
    /\ pc = "prepare"
    /\ language = French
    /\ csvData = <<>>
    /\ columns = <<>>
    /\ inputRows = <<>>
    /\ rows = <<>>
    /\ \E n \in 0..MaxGroup :
          translationRequests = [i \in 1..n |-> [text |-> NumberToDigits(i)]]
    /\ requestsByLangPair = <<>>
    /\ pairIndex = 0
    /\ batches = <<>>
    /\ finished = <<>>
    /\ sent = 0
    /\ output = NoOutput
    /\ error = "none"
    /\ NoRequest

SpecBatch == InitBatch /\ [][Prepare]_vars

\* Most file references of a request.
MaxFiles == 2

\* A downloaded file: its text and what parseCsvData makes of it, the first
\* line being the header.
CsvFile(cols, rws) ==
    [csvData |-> WriteCsv(<<cols>> \o rws), columns |-> cols, inputRows |-> rws]

\* The files a download may give: an empty one, tables with a cell to fill, a
\* table with none, a table with an unsupported column.
Downloads ==
    { NoData,
      CsvFile(<<English, French>>, << <<<<"a">>, <<>>>> >>),
      CsvFile(<<English, French>>, << <<<<"a">>, <<>>>>, <<<<>>, <<"b">>>> >>),
      CsvFile(<<English, French>>, << <<<<"a">>, <<"b">>>> >>),
      CsvFile(<<English, Klingon>>, << <<<<"a">>, <<>>>> >>) }

\* The request bodies: openaiFileIdRefs missing, no array, or an array of at
\* most MaxFiles references.
Bodies ==
    { [refs |-> r, hasLanguage |-> h] :
        r \in { [kind |-> "undefined", items |-> <<>>], [kind |-> "string", items |-> <<>>] }
              \cup { [kind |-> "array", items |-> [i \in 1..n |-> [name |-> i]]] :
                       n \in 0..MaxFiles },
        h \in BOOLEAN }

\* One request: its body, the language given being empty, supported or not.
InitHandler ==
    /\ InitEnv(Environments({<<>>}, {<<>>, <<"1">>}))
    /\ body \in Bodies
    /\ language \in IF body.hasLanguage THEN { <<>>, French, Klingon } ELSE { <<>> }
    /\ csvData = <<>>
    /\ columns = <<>>
    /\ inputRows = <<>>
    /\ pc = "handler"
    /\ rows = <<>>
    /\ translationRequests = <<>>
    /\ requestsByLangPair = <<>>
    /\ pairIndex = 0
    /\ batches = <<>>
    /\ finished = <<>>
    /\ sent = 0
    /\ output = NoOutput
    /\ error = "none"
    /\ hpc = "start"
    /\ files = <<>>
    /\ responses = <<>>

NextHandler ==
    \/ HandlerStart
    \/ \E i \in 1..Len(files) : \E ok \in BOOLEAN : \E data \in Downloads :
          FetchSettles(i, ok, data)
    \/ \E i \in 1..Len(files) : \E answered \in BOOLEAN : ProviderPhaseEnds(i, answered)

SpecHandler == InitHandler /\ [][NextHandler]_vars

\* Column names that are language codes, and the words of a small dictionary.
en == <<"e", "n">>

fr == <<"f", "r">>

es == <<"e", "s">>

hello == <<"h", "e", "l", "l", "o">>

bonjour == <<"b", "o", "n", "j", "o", "u", "r">>

hola == <<"h", "o", "l", "a">>

\* A provider that knows hello in French and in Spanish, under either name
\* of the language, and leaves every other text as it is.
Dictionary(text, targetLang) ==
    IF text = hello /\ targetLang \in {fr, French} THEN bonjour
    ELSE IF text = hello /\ targetLang \in {es, Spanish} THEN hola
    ELSE text

\* Its answer to a batch: one result per text, in order.
DictionaryAnswer(batch) ==
    [i \in 1..Len(batch.texts) |->
        [original_text |-> batch.texts[i],
         translated_text |-> Dictionary(batch.texts[i], batch.targetLang)]]

\* Fill-missing-cells mode on tables of three columns, named by codes or by
\* names, whose cells are empty or hello.
InitDictionary ==
    /\ InitRun
    /\ InitEnv(Environments({<<>>}, {<<>>}))
    /\ InitFill({ <<en, fr, es>>, <<English, French, Spanish>> }, { <<>>, hello })

NextDictionary ==
    \/ StartFill
    \/ \E b \in 1..Len(batches) :
          ProviderResolves(b, IF pc = "failed" THEN <<>> ELSE DictionaryAnswer(batches[b]))
    \/ \E b \in 1..Len(batches) : ProviderRejects(b)

SpecDictionary == InitDictionary /\ [][NextDictionary]_vars

\* What tells the batches of a run apart: the row of the first request in
\* fill-missing-cells mode, the first text in whole-table mode.
BatchTag(batch) ==
    IF "rowIndex" \in DOMAIN batch.requests[1]
    THEN NumberToDigits(batch.requests[1].rowIndex)
    ELSE batch.texts[1]

\* A provider whose answer is fixed by the batch: one result per text, in
\* order, the translated text carrying the tag of the batch, and one more
\* result that names the text a, so that the answers of two batches differ on
\* a text they both name.
FixedAnswer(batch) ==
    [i \in 1..Len(batch.texts) |->
        [original_text |-> batch.texts[i],
         translated_text |-> batch.texts[i] \o BatchTag(batch)]]
    \o << [original_text |-> <<"a">>, translated_text |-> BatchTag(batch)] >>

\* Both modes under that provider, every batch of one text or of up to ten,
\* all the batches of a call in flight at once.
InitFixed ==
    /\ InitRun
    /\ InitEnv(Environments({<<>>, <<"1">>}, {<<>>}))
    /\ \/ InitFill({<<English, French>>}, { <<>>, <<"a">>, <<"b">> })
       \/ InitWhole({French}, { <<>>, <<"a">>, <<"b">> })

NextFixed ==
    \/ StartFill
    \/ StartWhole
    \/ \E b \in 1..Len(batches) :
          ProviderResolves(b, IF pc = "failed" THEN <<>> ELSE FixedAnswer(batches[b]))
    \/ \E b \in 1..Len(batches) : ProviderRejects(b)

SpecFixed == InitFixed /\ [][NextFixed]_vars

\* Fill-missing-cells mode alone, on headers in two spellings and on cells of
\* white space, every batch of one request or of up to ten.
InitFillOnly ==
    /\ InitRun
    /\ InitEnv(Environments({<<>>, <<"1">>}, {<<>>}))
    /\ InitFill({ <<English, French>>, <<FrenchPadded, English>> },
                { <<>>, <<" ">>, <<"a">>, <<"b">> })

NextFill ==
    \/ StartFill
    \/ \E b \in 1..Len(batches) : \E answer \in Answers(batches[b].texts) \cup {<<>>} :
          ProviderResolves(b, answer)
    \/ \E b \in 1..Len(batches) : ProviderRejects(b)

SpecFill == InitFillOnly /\ [][NextFill]_vars

\* The call of batch b ends: the provider answers it or rejects it.
ProviderSettles(b) ==
    /\ b \in 1..Len(batches)
    /\ \/ \E answer \in Answers(batches[b].texts) \cup {<<>>} : ProviderResolves(b, answer)
       \/ ProviderRejects(b)

\* The download of file i ends.
DownloadSettles(i) ==
    /\ i \in 1..Len(files)
    /\ \E ok \in BOOLEAN : \E data \in Downloads : FetchSettles(i, ok, data)

\* The calls of file i end.
FileCallsSettle(i) ==
    /\ i \in 1..Len(files)
    /\ \E answered \in BOOLEAN : ProviderPhaseEnds(i, answered)

\* The tables of the runs followed to their end: none to fill, two cells of one
\* language pair, two cells of two pairs, no row.
LiveTables ==
    { << >>,
      << <<<<"a">>, <<"b">>>> >>,
      << <<<<"a">>, <<>>>>, <<<<"b">>, <<>>>> >>,
      << <<<<"a">>, <<>>>>, <<<<>>, <<"b">>>> >> }

\* One request to the handler, or the run of one file with every batch of one
\* request and the limit unset or 1.
InitLive ==
    \/ InitHandler
    \/ /\ InitRun
       /\ InitEnv(Environments({<<"1">>}, {<<>>, <<"1">>}))
       /\ \/ /\ language = <<>>
             /\ csvData = <<>>
             /\ columns = <<English, French>>
             /\ inputRows \in LiveTables
          \/ /\ language = French
             /\ columns = <<>>
             /\ inputRows = <<>>
             /\ csvData \in { WriteCsv(tbl) : tbl \in LiveTables }

NextLive ==
    \/ StartFill
    \/ StartWhole
    \/ \E b \in 1..Len(batches) : ProviderSettles(b)
    \/ HandlerStart
    \/ \E i \in 1..Len(files) : DownloadSettles(i)
    \/ \E i \in 1..Len(files) : FileCallsSettle(i)

\* The code that can run does run, and every download and every call to the
\* provider that was started ends.  For the start of a run and the end of a
\* call, weak fairness is written out, []<>~ENABLED <<A>>_vars \/ []<><<A>>_vars,
\* with the condition under which the action can happen in place of ENABLED:
\* a run can start when pc = "start", a call can end when one is in flight.
Fairness ==
    /\ \/ []<>(pc /= "start")
       \/ []<><<StartFill \/ StartWhole>>_vars
    /\ \/ []<>(InFlight(batches) = {})
       \/ []<><<\E b \in 1..Len(batches) : ProviderSettles(b)>>_vars
    /\ WF_vars(HandlerStart)
    /\ \A i \in 1..MaxFiles : WF_vars(DownloadSettles(i))
    /\ \A i \in 1..MaxFiles : WF_vars(FileCallsSettle(i))

SpecLive == InitLive /\ [][NextLive]_vars /\ Fairness

(***************************************************************************)
(* Properties.                                                             *)
(***************************************************************************)

\* C1: during the run of one table, in either mode, the provider calls issued and
\* not yet resolved or rejected never number more than MAX_CONCURRENCY_REQ.
InFlightBounded ==
    Cardinality(InFlight(batches)) <= JsToNumber(MAX_CONCURRENCY_REQ)

\* The limiter is holding a batch back: as many calls in flight as allowed, one queued.
LimiterHoldsBatch ==
    /\ Queued(batches) /= {}
    /\ Cardinality(InFlight(batches)) = JsToNumber(MAX_CONCURRENCY_REQ)

\* C2: once a batch's provider call has rejected, the run of the table has failed
\* and has returned nothing, whatever batches completed before.
RejectionFailsRun ==
    (\E k \in 1..Len(batches) : batches[k].status = "rejected")
        => pc = "failed" /\ output = NoOutput

\* A batch rejected after an earlier language pair had completed and its
\* translations had been written into the rows.
RejectedAfterCompletedPair ==
    /\ \E k \in 1..Len(batches) : batches[k].status = "rejected"
    /\ ~WholeMode
    /\ finished /= <<>>
    /\ rows /= inputRows

\* A string of white space only, the empty string included.
OnlyWhiteSpace(s) == \A i \in 1..Len(s) : s[i] \in WhiteSpace

\* processFile got past request building: the file has rows and no column
\* name was refused.
Built ==
    /\ ~WholeMode
    /\ pc /= "start"
    /\ error \notin {"EmptyFile", "UnsupportedLanguage"}

\* The requests built for the cell of row r in column c.
RequestsAt(r, c) ==
    { i \in 1..Len(translationRequests) :
        /\ translationRequests[i].rowIndex = r
        /\ translationRequests[i].targetLang = columns[c] }

\* The least element of a set of column positions, 0 for the empty set.
FirstOf(S) == IF S = {} THEN 0 ELSE CHOOSE k \in S : \A j \in S : k <= j

\* The first other column of row r whose cell is not the empty string.
FirstNonEmptyOther(r, c) ==
    FirstOf({ k \in 1..Len(columns) : k /= c /\ inputRows[r][k] /= <<>> })

\* The first other column of row r whose cell holds more than white space.
FirstTextOther(r, c) ==
    FirstOf({ k \in 1..Len(columns) : k /= c /\ ~OnlyWhiteSpace(inputRows[r][k]) })

\* Exactly one request is built for cell (r, c), from column k of the row.
OneRequestFrom(r, c, k) ==
    /\ Cardinality(RequestsAt(r, c)) = 1
    /\ \A i \in RequestsAt(r, c) :
          /\ translationRequests[i].sourceLang = columns[k]
          /\ translationRequests[i].text = inputRows[r][k]

\* C3 as stated, on tables whose column names are all supported: a request is
\* built for a cell exactly when the cell is empty or white space and another
\* cell of the row is non-empty, from the first such column.
RequestsWhereSiblingNonEmpty ==
    (Built /\ \A k \in 1..Len(columns) : LanguageSupported(columns[k])) =>
        \A r \in 1..Len(inputRows) : \A c \in 1..Len(columns) :
            IF OnlyWhiteSpace(inputRows[r][c]) /\ FirstNonEmptyOther(r, c) /= 0
            THEN OneRequestFrom(r, c, FirstNonEmptyOther(r, c))
            ELSE RequestsAt(r, c) = {}

\* C3, amended: when request building goes through, a request is built for a
\* cell exactly when the cell is empty or white space, another cell of the row
\* holds more than white space, and the first such column has a non-empty
\* name; it comes from that column.  Every request has a text that is more
\* than white space and a source language other than its target language.
RequestsWhereSiblingHasText ==
    Built =>
        /\ \A r \in 1..Len(inputRows) : \A c \in 1..Len(columns) :
              IF /\ OnlyWhiteSpace(inputRows[r][c])
                 /\ FirstTextOther(r, c) /= 0
                 /\ columns[FirstTextOther(r, c)] /= <<>>
              THEN OneRequestFrom(r, c, FirstTextOther(r, c))
              ELSE RequestsAt(r, c) = {}
        /\ \A i \in 1..Len(translationRequests) :
              /\ ~OnlyWhiteSpace(translationRequests[i].text)
              /\ translationRequests[i].sourceLang /= translationRequests[i].targetLang

\* Requests were built, and a blank cell whose only other cells are white
\* space got none.
BlankSiblingGivesNoRequest ==
    /\ Built
    /\ Len(translationRequests) >= 2
    /\ \E r \in 1..Len(inputRows) : \E c \in 1..Len(columns) :
          /\ OnlyWhiteSpace(inputRows[r][c])
          /\ FirstNonEmptyOther(r, c) /= 0
          /\ RequestsAt(r, c) = {}

\* The answer of a batch has one result per text, in order, each naming its text.
Positional(batch) ==
    /\ Len(batch.translations) = Len(batch.texts)
    /\ \A i \in 1..Len(batch.texts) : batch.translations[i].original_text = batch.texts[i]

\* C4: in fill-missing-cells mode with supported column names and positional
\* answers, after a successful run every cell that was blank in a row with a
\* text holds the translated_text the provider gave for that cell's request
\* (stated here for answers whose translated texts are all non-empty).
FilledCellsHoldOwnTranslation ==
    ( /\ Built
      /\ pc = "done"
      /\ \A k \in 1..Len(columns) : LanguageSupported(columns[k])
      /\ \A k \in 1..Len(finished) : Positional(finished[k])
      /\ \A k \in 1..Len(finished) : \A i \in 1..Len(finished[k].translations) :
            finished[k].translations[i].translated_text /= <<>> ) =>
        \A r \in 1..Len(inputRows) : \A c \in 1..Len(columns) :
            (OnlyWhiteSpace(inputRows[r][c]) /\ FirstTextOther(r, c) /= 0) =>
                \E k \in 1..Len(finished) : \E i \in 1..Len(finished[k].requests) :
                    /\ finished[k].requests[i].rowIndex = r
                    /\ finished[k].requests[i].targetLang = columns[c]
                    /\ finished[k].sourceLang = columns[FirstTextOther(r, c)]
                    /\ finished[k].targetLang = columns[c]
                    /\ finished[k].texts[i] = inputRows[r][FirstTextOther(r, c)]
                    /\ output.content.rows[r][c] =
                          finished[k].translations[i].translated_text

\* translateCsvToLanguage got past validation and parsing.
WholeBuilt ==
    /\ WholeMode
    /\ pc /= "start"
    /\ error \notin {"EmptyFile", "UnsupportedLanguage"}

\* The texts of the requests, in order.
RequestTexts == [i \in 1..Len(translationRequests) |-> translationRequests[i].text]

\* The cells of the input text, row by row.
InputCells == Flatten(ParseCsv(csvData))

\* The texts of the calls issued so far, call by call.
SentTexts == Flatten([k \in 1..Len(Calls) |-> Calls[k].texts])

\* The texts of all batches created so far, batch by batch.
BatchedTexts ==
    LET all == finished \o batches
    IN  Flatten([k \in 1..Len(all) |-> all[k].texts])

NoRepeat(s) == \A i, j \in 1..Len(s) : s[i] = s[j] => i = j

\* The position of the first cell equal to text.
FirstAt(cells, text) == FirstOf({ i \in 1..Len(cells) : cells[i] = text })

\* texts lists the cells of the set wanted, each once, in the order of their
\* first occurrence.
ListsInFirstOrder(texts, cells, wanted) ==
    /\ NoRepeat(texts)
    /\ { texts[i] : i \in 1..Len(texts) } = wanted
    /\ \A i, j \in 1..Len(texts) :
          i < j => FirstAt(cells, texts[i]) < FirstAt(cells, texts[j])

\* Each text is in one batch, no text is sent twice, and a completed run has
\* sent them all.
EachTextSentOnce ==
    /\ NoRepeat(SentTexts)
    /\ (finished \o batches /= <<>>) => BatchedTexts = RequestTexts
    /\ pc = "done" => SentTexts = RequestTexts

\* C5 as stated: in whole-table mode the requests are the distinct non-empty
\* cell texts in the order of their first occurrence, each sent exactly once.
RequestsAreDistinctNonEmptyCells ==
    WholeBuilt =>
        /\ ListsInFirstOrder(RequestTexts, InputCells,
              { InputCells[i] : i \in { j \in 1..Len(InputCells) : InputCells[j] /= <<>> } })
        /\ EachTextSentOnce

\* C5, amended: the requests are the distinct cell texts that are neither empty
\* nor white space only, in the order of their first occurrence; each is put in
\* exactly one batch, no text is sent twice, and a run that completes has sent
\* each exactly once.
RequestsAreDistinctTextCells ==
    WholeBuilt =>
        /\ ListsInFirstOrder(RequestTexts, InputCells,
              { InputCells[i] :
                  i \in { j \in 1..Len(InputCells) : ~OnlyWhiteSpace(InputCells[j]) } })
        /\ EachTextSentOnce

\* A completed run on a text with a repeated cell, a second text and a cell of
\* white space.
RepeatedCellSentOnce ==
    /\ WholeBuilt
    /\ pc = "done"
    /\ Len(translationRequests) = 2
    /\ \E i, j \in 1..Len(InputCells) :
          i /= j /\ InputCells[i] = InputCells[j] /\ ~OnlyWhiteSpace(InputCells[i])
    /\ \E i \in 1..Len(InputCells) : InputCells[i] /= <<>> /\ OnlyWhiteSpace(InputCells[i])

\* The translations a completed whole-table run got, in batch order.
Received == AllTranslations(finished)

\* The results that name the cell's text.
ResultsFor(cell) == { i \in 1..Len(Received) : Received[i].original_text = cell }

\* What the text -> translated text map built from the results holds for a cell.
MappedText(cell) ==
    Received[CHOOSE i \in ResultsFor(cell) : \A j \in ResultsFor(cell) : i >= j].translated_text

\* C6: after a successful whole-table run the output table has the rows and
\* cells of the input, each cell the translated_text mapped to its text when
\* the results hold a mapping for it, and the input cell otherwise (stated here
\* for results whose translated texts are all non-empty).
OutputIsMappedTable ==
    ( /\ WholeBuilt
      /\ pc = "done"
      /\ \A i \in 1..Len(Received) : Received[i].translated_text /= <<>> ) =>
        LET input == ParseCsv(csvData)
        IN  ParseCsv(output.content) =
              [r \in 1..Len(input) |-> [c \in 1..Len(input[r]) |->
                  IF ResultsFor(input[r][c]) /= {} THEN MappedText(input[r][c])
                  ELSE input[r][c]]]

\* C7: no call to the provider carries more than MAX_BATCH_SIZE texts, for
\* the default and for every configured batch size.
BatchesWithinMaxBatchSize ==
    \A k \in 1..Len(Calls) : Len(Calls[k].texts) <= JsToNumber(MAX_BATCH_SIZE)

\* C8: the batches built from a request list, concatenated in creation order,
\* are the list; no batch is empty, each carries the texts of its requests, and
\* an empty list gives no batch and no call.
BatchesPartitionGroup ==
    pc = "awaiting" =>
        /\ Flatten([k \in 1..Len(batches) |-> batches[k].requests]) = translationRequests
        /\ \A k \in 1..Len(batches) :
              /\ batches[k].requests /= <<>>
              /\ batches[k].texts =
                    [i \in 1..Len(batches[k].requests) |-> batches[k].requests[i].text]
        /\ translationRequests = <<>> => (batches = <<>> /\ Calls = <<>>)

\* A list cut into three batches or more.
ThreeBatches == pc = "awaiting" /\ Len(batches) >= 3

\* The file has no row: no parsed row in fill mode, an empty text in whole mode.
ZeroRows == IF WholeMode THEN csvData = <<>> ELSE inputRows = <<>>

\* C9: in both modes a table with zero rows makes the run fail with the
\* empty-input error, before any request is built or any call made.
ZeroRowsFailEmpty ==
    (ZeroRows /\ pc /= "start" /\ (WholeMode => LanguageSupported(language))) =>
        /\ pc = "failed"
        /\ error = "EmptyFile"
        /\ translationRequests = <<>>
        /\ Calls = <<>>

\* No supported language equals the language, case and surrounding white
\* space aside.
MatchesNoSupportedName(lang) ==
    \A name \in supportedLanguages : Trim(ToLowerCase(name)) /= Trim(ToLowerCase(lang))

\* C10: in whole-table mode a language outside the supported set makes the
\* run fail with the validation error, and no call is ever made.
UnsupportedLanguageFails ==
    (WholeMode /\ pc /= "start" /\ MatchesNoSupportedName(language)) =>
        /\ pc = "failed"
        /\ error = "UnsupportedLanguage"
        /\ batches = <<>>
        /\ Calls = <<>>

\* The run of a text with cells to translate was refused for its language.
KlingonRefused ==
    /\ pc = "failed"
    /\ language = Klingon
    /\ \E i \in 1..Len(InputCells) : ~OnlyWhiteSpace(InputCells[i])

\* A request is derived for cell (r, c): the cell is blank and the first other
\* column of the row with a text has a non-empty name.
DerivesRequest(r, c) ==
    /\ OnlyWhiteSpace(inputRows[r][c])
    /\ FirstTextOther(r, c) /= 0
    /\ columns[FirstTextOther(r, c)] /= <<>>

\* The cells of the table a request is derived for.
DerivedCells ==
    { rc \in (1..Len(inputRows)) \X (1..Len(columns)) : DerivesRequest(rc[1], rc[2]) }

\* processFile went through request building on a table with rows, whether
\* validation passed or not.
FillRan == ~WholeMode /\ pc /= "start" /\ inputRows /= <<>>

\* The run was refused for a language and nothing was called or returned.
FailedValidation ==
    /\ pc = "failed"
    /\ error = "UnsupportedLanguage"
    /\ batches = <<>>
    /\ Calls = <<>>
    /\ output = NoOutput

\* C11 as stated: in fill-missing-cells mode a table with a column name that is
\* no supported language fails with the validation error and no call is made,
\* whichever cells are empty (stated here for column names that are not empty).
EveryColumnValidated ==
    ( /\ FillRan
      /\ \A c \in 1..Len(columns) : columns[c] /= <<>>
      /\ \E c \in 1..Len(columns) : ~LanguageSupported(columns[c]) )
        => FailedValidation

\* C11, amended: the run fails with the validation error, no call made, exactly
\* when some request derived from the table has a source or a target column
\* whose name is no supported language; the name of a column that no derived
\* request has as its source or target is not validated.
RequestColumnsValidated ==
    FillRan =>
        ( (\E rc \in DerivedCells :
              \/ ~LanguageSupported(columns[rc[2]])
              \/ ~LanguageSupported(columns[FirstTextOther(rc[1], rc[2])]))
          <=> FailedValidation )
        /\ (error = "UnsupportedLanguage" => FailedValidation)

\* A table with an unsupported column name was refused for a request into or
\* out of that column.
UnsupportedColumnRefused ==
    /\ FillRan
    /\ FailedValidation
    /\ Klingon \in { columns[c] : c \in 1..Len(columns) }
    /\ DerivedCells /= {}

\* No cell of the table is the empty string.
NoEmptyCell ==
    \A r \in 1..Len(inputRows) : \A c \in 1..Len(columns) : inputRows[r][c] /= <<>>

\* Every row with an empty cell has no non-empty cell.
EmptyRowsHaveNoSource ==
    \A r \in 1..Len(inputRows) :
        (\E c \in 1..Len(columns) : inputRows[r][c] = <<>>)
            => \A c \in 1..Len(columns) : inputRows[r][c] = <<>>

\* The run built no request, called nothing and returned the input table.
PassedThrough ==
    /\ pc = "done"
    /\ translationRequests = <<>>
    /\ batches = <<>>
    /\ Calls = <<>>
    /\ output = [returned |-> TRUE, content |-> [columns |-> columns, rows |-> inputRows]]

\* C12 as stated: in fill-missing-cells mode a table with no empty cell, or
\* whose rows with an empty cell have no non-empty cell, derives zero requests:
\* no call is made and the output table is the input table.
NoEmptyCellPassesThrough ==
    (FillRan /\ (NoEmptyCell \/ EmptyRowsHaveNoSource)) => PassedThrough

\* C12, amended: on a table with rows, zero requests are derived exactly when
\* no blank cell (empty or white space only) has another cell of its row with
\* more than white space under a non-empty column name; then no call is made
\* and the output table is the input table, cell for cell.
NoDerivedRequestPassesThrough ==
    FillRan => (DerivedCells = {} <=> PassedThrough)

\* A table with a row of blank cells only, and a cell of white space, passed through.
BlankRowPassedThrough ==
    /\ FillRan
    /\ PassedThrough
    /\ \E r \in 1..Len(inputRows) : \A c \in 1..Len(columns) : OnlyWhiteSpace(inputRows[r][c])
    /\ \E r \in 1..Len(inputRows) : \E c \in 1..Len(columns) : inputRows[r][c] = <<" ">>

\* translateHandler has mapped the file references of a usable request.
FilesMapped ==
    /\ hpc \in {"awaiting", "responded"}
    /\ body.refs.kind = "array"
    /\ body.refs.items /= <<>>

SomeFileThrew == \E i \in 1..Len(files) : files[i].state = "threw"

AllFilesReturned == \A i \in 1..Len(files) : files[i].state = "returned"

\* C13: a request of several files is all or nothing.  Once the download, the
\* parsing, the validation or a batch of one file has failed, the one answer
\* is a 500 with the error of a failed file and no file; when every file has
\* returned, the one answer holds one translated file for each file reference,
\* in the order of the references; nothing is answered before.
AllOrNothing ==
    FilesMapped =>
        /\ Len(files) = Len(body.refs.items)
        /\ Len(responses) <= 1
        /\ SomeFileThrew =>
              /\ Len(responses) = 1
              /\ responses[1].status = 500
              /\ DOMAIN responses[1].body = {"error"}
              /\ \E i \in 1..Len(files) :
                    files[i].state = "threw" /\ responses[1].body.error = files[i].error
        /\ AllFilesReturned =>
              /\ Len(responses) = 1
              /\ responses[1].status = 200
              /\ DOMAIN responses[1].body = {"openaiFileResponse"}
              /\ Len(responses[1].body.openaiFileResponse) = Len(body.refs.items)
              /\ \A i \in 1..Len(body.refs.items) :
                    LET file == responses[1].body.openaiFileResponse[i]
                    IN  /\ file.returned
                        /\ file.name = <<"translated_", body.refs.items[i].name>>
                        /\ file = files[i].file
        /\ (~SomeFileThrew /\ ~AllFilesReturned) => responses = <<>>

\* One file of the request had returned its translation when another failed
\* at the provider.
OneFileFailedAfterAnotherReturned ==
    /\ FilesMapped
    /\ responses /= <<>>
    /\ \E i, j \in 1..Len(files) :
          /\ files[i].state = "returned"
          /\ files[i].called
          /\ files[j].state = "threw"
          /\ files[j].error = "ProviderError"

\* C14: when openaiFileIdRefs is missing, is no array or is an empty array, the
\* handler answers 400, downloads no file and calls no provider, and the 400
\* is its only response.
InvalidRefsAnswered400 ==
    /\ (hpc /= "start" /\ (body.refs.kind /= "array" \/ body.refs.items = <<>>)) =>
          /\ responses = <<BadRequest>>
          /\ files = <<>>
    /\ \A k \in 1..Len(responses) : responses[k].status = 400 =>
          /\ Len(responses) = 1
          /\ files = <<>>
          /\ hpc = "responded"

\* A request with an empty array of file references was answered.
EmptyArrayAnswered ==
    /\ hpc = "responded"
    /\ body.refs.kind = "array"
    /\ body.refs.items = <<>>
    /\ responses /= <<>>

\* C15: without a language field every file runs in fill-missing-cells mode;
\* with a language field, whatever its value, every file runs in whole-table
\* mode, and a value that is no supported language fails every file at
\* validation, before any call.
LanguageGivenRunsWholeTable ==
    \A i \in 1..Len(files) : files[i].mode /= "none" =>
        /\ files[i].mode = IF body.hasLanguage THEN "whole" ELSE "fill"
        /\ (body.hasLanguage /\ ~LanguageSupported(language)) =>
              /\ files[i].state = "threw"
              /\ files[i].error = "UnsupportedLanguage"
              /\ ~files[i].called

\* C16: in fill-missing-cells mode the batches of all language-pair groups of
\* the table are submitted and awaited together: while the run waits on the
\* provider, every group has its batches among those submitted, whatever
\* batches of other groups are still outstanding.
AllGroupsSubmittedTogether ==
    (Built /\ pc = "awaiting") =>
        \A g \in 1..Len(requestsByLangPair) :
            \E k \in 1..Len(batches) : LangPairKey(batches[k]) = requestsByLangPair[g].key

\* The run is over and no call to the provider was rejected.
EndedUnrejected ==
    /\ pc \in {"done", "failed"}
    /\ \A k \in 1..Len(batches) : batches[k].status /= "rejected"

\* The run returned the table with the one row given.
ReturnedRow(row) ==
    /\ pc = "done"
    /\ output = [returned |-> TRUE, content |-> [columns |-> columns, rows |-> <<row>>]]

\* C17 as stated (scenario A): the table of the one row {en: hello, fr: "",
\* es: ""}, the provider giving bonjour for en to fr and hola for en to es,
\* comes out as {en: hello, fr: bonjour, es: hola}.
ScenarioACodes ==
    ( /\ ~WholeMode
      /\ columns = <<en, fr, es>>
      /\ inputRows = << <<hello, <<>>, <<>>>> >>
      /\ EndedUnrejected ) => ReturnedRow(<<hello, bonjour, hola>>)

\* C17, amended: the table of the one row {English: hello, French: "",
\* Spanish: ""}, the provider giving bonjour for English to French and hola
\* for English to Spanish, comes out as
\* {English: hello, French: bonjour, Spanish: hola}.
ScenarioANames ==
    ( /\ ~WholeMode
      /\ columns = <<English, French, Spanish>>
      /\ inputRows = << <<hello, <<>>, <<>>>> >>
      /\ EndedUnrejected ) => ReturnedRow(<<hello, bonjour, hola>>)

\* The run of scenario A under language names has returned.
ScenarioAReturned ==
    /\ columns = <<English, French, Spanish>>
    /\ inputRows = << <<hello, <<>>, <<>>>> >>
    /\ Len(finished) = 2
    /\ ReturnedRow(<<hello, bonjour, hola>>)

\* The calls in flight before a step that are no longer in flight after it.
LeftFlight ==
    { k \in InFlight(batches) : k > Len(batches') \/ batches'[k].status /= "running" }

\* C18: there is no cancellation.  A step that leaves the run failed settles
\* the call of at most one batch, every other call in flight staying in
\* flight; a call in flight after the failure can still resolve and can still
\* reject; and once the run has failed it stays failed, its rows are written
\* no more and no output is returned, whatever the calls left in flight answer.
NoCancellation ==
    /\ [][pc' = "failed" => Cardinality(LeftFlight) <= 1]_vars
    /\ [](pc = "failed" =>
             \A b \in InFlight(batches) :
                 ENABLED ProviderResolves(b, <<>>) /\ ENABLED ProviderRejects(b))
    /\ [][pc = "failed" => (pc' = "failed" /\ output' = NoOutput /\ rows' = rows)]_vars

\* A call rejected while the call of a sibling batch was in flight, nothing
\* being queued: the sibling is in flight still.
SiblingInFlightAfterRejection ==
    /\ pc = "failed"
    /\ envConcurrency = <<>>
    /\ \E j, k \in 1..Len(batches) :
          batches[j].status = "rejected" /\ batches[k].status = "running"

\* The step stays within one call of prepareAndExecuteTranslations.
SameBatches ==
    /\ pc \in {"awaiting", "failed"}
    /\ finished' = finished
    /\ Len(batches') = Len(batches)

\* C19: there is no retry.  A batch whose call has resolved or rejected is
\* never sent again and a call in flight is not withdrawn; the calls made never
\* number more than the batches created; and a run that succeeds has called
\* the provider exactly once for each batch, every call resolved.
NoRetry ==
    /\ [][SameBatches =>
            \A k \in 1..Len(batches) :
                /\ batches[k].status \in {"resolved", "rejected"} => batches'[k] = batches[k]
                /\ batches[k].status = "running" => batches'[k].status /= "queued"
                /\ batches'[k].requests = batches[k].requests]_vars
    /\ [](sent <= Len(finished) + Len(batches))
    /\ [](sent = Len(Calls))
    /\ [](pc = "done" =>
             /\ batches = <<>>
             /\ sent = Len(finished)
             /\ \A k \in 1..Len(finished) : finished[k].status = "resolved")

\* A run succeeded after calls for several batches.
SucceededWithSeveralBatches ==
    /\ pc = "done"
    /\ Len(finished) >= 2
    /\ sent = Len(finished)

\* C20: the cells of a table are written only after all the provider calls for
\* the table have resolved: a step that writes a cell in fill-missing-cells mode
\* is followed by no call for the table, the run returning its output.
CellsWrittenAfterAllCalls ==
    [][(~WholeMode /\ pc = "awaiting" /\ rows' /= rows) => (pc' = "done" /\ batches' = <<>>)]_vars

\* What prepareAndExecuteTranslations returns under the fixed provider: the
\* answers of the batches, in batch order.
FixedTranslations(requests, sourceLang, targetLang) ==
    LET bs == NewBatches(requests, sourceLang, targetLang)
    IN  Flatten([k \in 1..Len(bs) |-> FixedAnswer(bs[k])])

\* The table after the pairs from g on, each pair's answers taken in batch order.
RECURSIVE FilledInBatchOrder(_, _, _, _)
FilledInBatchOrder(cols, rws, groups, g) ==
    IF g > Len(groups) THEN rws
    ELSE LET pair == SplitLangPair(groups[g].key)
         IN  FilledInBatchOrder(cols,
                 UpdateRows(cols, rws, groups[g].requests,
                            FixedTranslations(groups[g].requests,
                                              pair.sourceLang, pair.targetLang), 1),
                 groups, g + 1)

\* The output the answers of the batches give when taken in batch order.
OutputInBatchOrder ==
    IF WholeMode
    THEN WriteCsv(TranslateRows(ParseCsv(csvData),
                     FixedTranslations(translationRequests, AnyLanguage, language)))
    ELSE [columns |-> columns,
          rows |-> FilledInBatchOrder(columns, inputRows,
                                      GroupByLangPair(translationRequests), 1)]

\* C21: with the answer of every batch fixed, a successful run returns the same
\* output table whatever the order in which its calls in flight complete, in
\* both modes: the table the answers give when taken in batch order.
OutputSameForEveryOrder ==
    pc = "done" => output = [returned |-> TRUE, content |-> OutputInBatchOrder]

\* A run succeeded whose call had two batches in flight at once, their
\* answers differing on a text both name.
TwoBatchesInFlightCompleted ==
    /\ pc = "done"
    /\ envConcurrency = <<>>
    /\ \E j, k \in 1..Len(finished) :
          /\ j < k
          /\ finished[j].sourceLang = finished[k].sourceLang
          /\ finished[j].targetLang = finished[k].targetLang
          /\ BatchTag(finished[j]) /= BatchTag(finished[k])

\* The results the run got for the language pair of a request, in batch order.
PairResults(request) ==
    AllTranslations(SelectSeq(finished,
        LAMBDA batch : /\ batch.sourceLang = request.sourceLang
                       /\ batch.targetLang = request.targetLang))

\* The results of its pair that name the text of the request.
Matches(request) ==
    { i \in 1..Len(PairResults(request)) :
        PairResults(request)[i].original_text = request.text }

\* The translated text of the first result that names the text of the request.
FirstMatch(request) ==
    PairResults(request)[CHOOSE i \in Matches(request) :
                            \A j \in Matches(request) : i <= j].translated_text

\* The request built for cell (r, c) has a result to write: the first result
\* that names its text holds a translated text that is not empty.
HasResultToWrite(r, c) ==
    \E i \in RequestsAt(r, c) :
        /\ Matches(translationRequests[i]) /= {}
        /\ FirstMatch(translationRequests[i]) /= <<>>

\* C22: in fill-missing-cells mode no answer of the provider, its results
\* missing, reordered, duplicated, extra or naming another text, makes the run
\* fail: a run past request building fails only when pLimit throws or a call
\* rejects, and ends when its last call resolves.  In the output a cell holds
\* the translated text of the first result that names the text of its request,
\* and every other cell, a cell whose request no result names among them, is
\* as it was in the input.
UnmatchedCellsKept ==
    /\ (Built /\ pc = "failed") =>
          \/ error = "TypeError"
          \/ \E k \in 1..Len(batches) : batches[k].status = "rejected"
    /\ (Built /\ pc = "awaiting") =>
          \E k \in 1..Len(batches) : batches[k].status \in {"running", "queued"}
    /\ (Built /\ pc = "done") =>
          \A r \in 1..Len(inputRows) : \A c \in 1..Len(columns) :
              output.content.rows[r][c] =
                  IF HasResultToWrite(r, c)
                  THEN FirstMatch(translationRequests[CHOOSE i \in RequestsAt(r, c) : TRUE])
                  ELSE inputRows[r][c]

\* A run ended in which one cell was written and another, whose request no
\* result named, was left empty.
UnmatchedCellLeftEmpty ==
    /\ Built
    /\ pc = "done"
    /\ \E r \in 1..Len(inputRows) : \E c \in 1..Len(columns) :
          /\ \E i \in RequestsAt(r, c) : Matches(translationRequests[i]) = {}
          /\ output.content.rows[r][c] = <<>>
    /\ \E r \in 1..Len(inputRows) : \E c \in 1..Len(columns) :
          output.content.rows[r][c] /= inputRows[r][c]

\* C23 as stated: in the output of fill-missing-cells mode every cell that was
\* not empty in the input has the value it had in the input.
NonEmptyCellsKept ==
    (Built /\ pc = "done") =>
        \A r \in 1..Len(inputRows) : \A c \in 1..Len(columns) :
            inputRows[r][c] /= <<>> => output.content.rows[r][c] = inputRows[r][c]

\* C23: fill-missing-cells mode writes only cells that were empty or held
\* white space alone in the input: under any answers of the provider, every
\* cell that held text other than white space in the input has the same value
\* throughout the run and in the output, and the rows and the columns are those
\* of the input.
TextCellsKept ==
    Built =>
        /\ Len(rows) = Len(inputRows)
        /\ \A r \in 1..Len(inputRows) :
              /\ Len(rows[r]) = Len(columns)
              /\ \A c \in 1..Len(columns) :
                    ~IsBlank(inputRows[r][c]) => rows[r][c] = inputRows[r][c]
        /\ pc = "done" => output = [returned |-> TRUE,
                                    content |-> [columns |-> columns, rows |-> rows]]

\* A run ended in which a cell of white space was overwritten in a row whose
\* cell of text was kept.
WhitespaceCellOverwritten ==
    /\ Built
    /\ pc = "done"
    /\ \E r \in 1..Len(inputRows) : \E c, d \in 1..Len(columns) :
          /\ inputRows[r][c] = <<" ">>
          /\ output.content.rows[r][c] /= <<" ">>
          /\ ~IsBlank(inputRows[r][d])
          /\ output.content.rows[r][d] = inputRows[r][d]

\* The texts of the requests of every language pair, pair by pair.
GroupedTexts ==
    Flatten([g \in 1..Len(requestsByLangPair) |->
                [i \in 1..Len(requestsByLangPair[g].requests) |->
                    requestsByLangPair[g].requests[i].text]])

PairOf(request) == [sourceLang |-> request.sourceLang, targetLang |-> request.targetLang]

\* C25: the language pair recovered from the key of a group is the pair of
\* every request of the group, every batch made for a group, called already or
\* still queued, is given that source and target language and holds requests
\* of that pair alone, and no supported language name holds the "-" at which
\* the key is split, so this is so for every column name that passes
\* validation.
GroupsHoldOnePair ==
    /\ \A name \in supportedLanguages : \A k \in 1..Len(name) : name[k] /= "-"
    /\ Built =>
          /\ \A g \in 1..Len(requestsByLangPair) :
                \A i \in 1..Len(requestsByLangPair[g].requests) :
                    SplitLangPair(requestsByLangPair[g].key) =
                        PairOf(requestsByLangPair[g].requests[i])
          /\ \A k \in 1..Len(finished \o batches) :
                LET batch == (finished \o batches)[k]
                IN  \A i \in 1..Len(batch.requests) :
                        PairOf(batch) = PairOf(batch.requests[i])

\* Calls were made for two groups, one of them for a column whose name is
\* spelt with spaces and in another case.
TwoGroupsCalled ==
    /\ Built
    /\ Len(requestsByLangPair) = 2
    /\ columns[1] = FrenchPadded
    /\ \E j, k \in 1..Len(Calls) : Calls[j].targetLang /= Calls[k].targetLang

\* The calls in flight over all files of the request: file and batch.
InFlightOverFiles ==
    { ik \in (1..Len(files)) \X (1..MaxGroup) : ik[2] \in InFlight(files[ik[1]].calls) }

\* C26: over all the files of one request, no more than MAX_CONCURRENCY_REQ
\* calls to the provider are in flight at any time.
CallsOverFilesWithinLimit ==
    hpc /= "none" => Cardinality(InFlightOverFiles) <= JsToNumber(MAX_CONCURRENCY_REQ)

\* C27: when every download and every call to the provider that was started
\* ends, the handler sends a response, and never more than one; the run of a
\* file ends; every batch waiting for a permit of the limiter gets one,
\* whether the calls that ended before it were answered or rejected; and in the
\* end no call is in flight and none is waiting.  A run that has not ended
\* has a call in flight, and a handler that has not answered has a download
\* or the calls of a file outstanding: nothing else can stall them.
EveryRunEnds ==
    /\ (hpc = "start") ~> (hpc = "responded")
    /\ [](Len(responses) <= 1 /\ (hpc = "responded" <=> Len(responses) = 1))
    /\ (pc = "start") ~> (pc \in {"done", "failed"})
    /\ \A b \in 1..MaxRows : (b \in Queued(batches)) ~> (b \notin Queued(batches))
    /\ <>[](InFlight(batches) = {} /\ Queued(batches) = {})
    /\ [](pc = "awaiting" => InFlight(batches) /= {})
    /\ [](hpc = "awaiting" =>
            \E i \in 1..Len(files) : files[i].state \in {"fetching", "awaiting"})

\* A batch that waited for the one permit was called after the call before it
\* had been rejected, and has ended: no call is left.
QueuedBatchRanAfterRejection ==
    /\ pc = "failed"
    /\ JsToNumber(MAX_CONCURRENCY_REQ) = 1
    /\ Len(batches) >= 2
    /\ batches[1].status = "rejected"
    /\ batches[2].status \in {"resolved", "rejected"}
    /\ InFlight(batches) = {}
    /\ Queued(batches) = {}

====
